---- MODULE Spec2Model ----
(***************************************************************************)
(* Pharmacy claims analytics (loader.py, processor.py, main.py).           *)
(*                                                                         *)
(* Representation.                                                         *)
(*  - A Utf8 value is a sequence of character codes; two strings are       *)
(*    ordered lexicographically, as Polars orders Utf8 columns.            *)
(*  - A null Utf8 value is NULL, the one-element sequence <<0>>: code 0    *)
(*    occurs in no text read from a CSV or JSON file.                      *)
(*  - price is a whole number of cents and quantity a whole number of      *)
(*    units, so a sum is exact and round(total_price/total_quantity, 2)    *)
(*    is the quotient of cents by units rounded to a whole cent.           *)
(*  - A nullable Float64 (avg_price of the chain aggregation) is <<>> for  *)
(*    null and <<v>> for the value v.                                      *)
(*  - A DataFrame is the sequence of its rows; the timestamp column is     *)
(*    read by no operation and is left out.                                *)
(***************************************************************************)
EXTENDS Integers, Sequences, FiniteSets, TLC

VARIABLES
    pc,                     \* position in main / run_pharmacy_analytics
    dfs,                    \* the list `dfs` of the loader that is running
    nfiles,                 \* files the running loader has iterated over
    df_pharmacies,          \* main: df_pharmacies
    df_claims,              \* main: df_claims (as loaded)
    df_reverts,             \* main: df_reverts
    enriched,               \* run_pharmacy_analytics: its local df_claims
    npi_metrics,            \* rows written to npi_metrics.json
    chain_recommendations,  \* rows written to chain_recommendations.json
    quantity_insights       \* rows written to quantity_insights.json

vars == <<pc, dfs, nfiles, df_pharmacies, df_claims, df_reverts, enriched,
          npi_metrics, chain_recommendations, quantity_insights>>

----------------------------------------------------------------------------
(* Values *)

NULL == <<0>>

Range(s) == {s[i] : i \in DOMAIN s}

RECURSIVE StrLt(_, _)
StrLt(a, b) ==
    IF b = <<>> THEN FALSE
    ELSE IF a = <<>> THEN TRUE
    ELSE IF Head(a) # Head(b) THEN Head(a) < Head(b)
    ELSE StrLt(Tail(a), Tail(b))

\* Polars sort, nulls_last = False: a null precedes every value.
NullsFirstLt(a, b) ==
    IF a = NULL THEN b # NULL
    ELSE IF b = NULL THEN FALSE
    ELSE StrLt(a, b)

\* Series.round(2) of p / q, q > 0: halves away from zero.
Round2(p, q) ==
    IF p >= 0 THEN (2 * p + q) \div (2 * q)
    ELSE 0 - ((2 * (0 - p) + q) \div (2 * q))

RECURSIVE Concat(_)
Concat(frames) ==
    IF frames = <<>> THEN <<>> ELSE Head(frames) \o Concat(Tail(frames))

RECURSIVE SumPrice(_)
SumPrice(rows) ==
    IF rows = <<>> THEN 0 ELSE Head(rows).price + SumPrice(Tail(rows))

RECURSIVE SumQuantity(_)
SumQuantity(rows) ==
    IF rows = <<>> THEN 0 ELSE Head(rows).quantity + SumQuantity(Tail(rows))

\* The orders in which a group_by without maintain_order may return its groups.
Orders(S) ==
    {o \in [1..Cardinality(S) -> S] : \A i, j \in 1..Cardinality(S) : i # j => o[i] # o[j]}

\* Insertion of row r into the sequence s, which is sorted by lt: after the
\* rows that r does not precede. lt[<<a, b>>] tells whether a precedes b.
Insert(r, s, lt) ==
    LET k == Cardinality({j \in DOMAIN s : ~lt[<<r, s[j]>>]})
    IN  SubSeq(s, 1, k) \o <<r>> \o SubSeq(s, k + 1, Len(s))

\* DataFrame.sort / Expr.sort: stable, ascending by lt.
SortBy(s, lt) ==
    LET sorted[i \in 0..Len(s)] ==
            IF i = 0 THEN <<>> ELSE Insert(s[i], sorted[i - 1], lt)
    IN  sorted[Len(s)]

----------------------------------------------------------------------------
(* loader.py *)

\* The rows of `rows` at the indices o[1], o[2], ...
RowsAt(rows, o) == [n \in DOMAIN o |-> rows[o[n]]]

\* DataFrame.unique(subset=key): keep = "any" and maintain_order = False, so
\* one row per key value survives, whichever, and the rows come in any order.
\* key[i] is the value of the subset column in row i.
UniqueOutcomes(rows, key) ==
    LET keys == {key[i] : i \in DOMAIN rows}
        picks == {f \in [keys -> DOMAIN rows] : \A k \in keys : key[f[k]] = k}
    IN  UNION {{RowsAt(rows, o) : o \in Orders({f[k] : k \in keys})} : f \in picks}

\* The column npi, the column id.
NpiOf(rows) == [i \in DOMAIN rows |-> rows[i].npi]

IdOf(rows) == [i \in DOMAIN rows |-> rows[i].id]

----------------------------------------------------------------------------
(* processor.py *)

\* DataFrame.join(how="inner") on npi: one row per pair of a claim and a row
\* of valid_npis with the same, non-null, npi.
RECURSIVE InnerJoinNpi(_, _)
InnerJoinNpi(claims, valid_npis) ==
    IF claims = <<>> THEN <<>>
    ELSE LET c == Head(claims)
             m == SelectSeq(valid_npis, LAMBDA n : n = c.npi /\ n # NULL)
         IN  [i \in 1..Len(m) |-> c] \o InnerJoinNpi(Tail(claims), valid_npis)

\* how="left" in place of how="inner": a claim without a pharmacy row stays.
filter_to_pharmacy_dataset_left(claims, pharmacies) ==
    LET valid_npis == [i \in DOMAIN pharmacies |-> pharmacies[i].npi]
        unmatched == SelectSeq(claims,
                         LAMBDA c : \A i \in DOMAIN valid_npis : valid_npis[i] # c.npi)
    IN  InnerJoinNpi(claims, valid_npis) \o unmatched

filter_to_pharmacy_dataset(claims, pharmacies) ==
    LET valid_npis == [i \in DOMAIN pharmacies |-> pharmacies[i].npi]
    IN  InnerJoinNpi(claims, valid_npis)

\* df_reverts["id"] in place of df_reverts["claim_id"]
mark_reverted_claims_by_id(claims, reverts) ==
    LET reverted_ids == [i \in DOMAIN reverts |-> reverts[i].id]
    IN  [i \in DOMAIN claims |->
            [id |-> claims[i].id, npi |-> claims[i].npi, ndc |-> claims[i].ndc,
             price |-> claims[i].price, quantity |-> claims[i].quantity,
             is_reverted |-> \E j \in DOMAIN reverted_ids : reverted_ids[j] = claims[i].id]]

mark_reverted_claims(claims, reverts) ==
    LET reverted_ids == [i \in DOMAIN reverts |-> reverts[i].claim_id]
    IN  [i \in DOMAIN claims |->
            [id |-> claims[i].id, npi |-> claims[i].npi, ndc |-> claims[i].ndc,
             price |-> claims[i].price, quantity |-> claims[i].quantity,
             is_reverted |-> \E j \in DOMAIN reverted_ids : reverted_ids[j] = claims[i].id]]

\* Keys of group_by(["npi", "ndc"]).
NpiNdcKeys(claims) == {<<claims[i].npi, claims[i].ndc>> : i \in DOMAIN claims}

\* sort("npi") in place of sort(["npi", "ndc"])
NpiLt(a, b) == StrLt(a.npi, b.npi)

\* sort(["npi", "ndc"])
NpiNdcLt(a, b) ==
    \/ StrLt(a.npi, b.npi)
    \/ a.npi = b.npi /\ StrLt(a.ndc, b.ndc)

\* a count of the claims that are not reverted in place of pl.count()
FillsNotReverted(g) == Len(SelectSeq(g, LAMBDA c : ~c.is_reverted))

\* pl.count().alias("fills")
Fills(g) == Len(g)

\* pl.col("is_reverted").sum().alias("reverted")
Reverted(g) == Len(SelectSeq(g, LAMBDA c : c.is_reverted))

\* total_quantity != 0 in place of total_quantity > 0
AvgPriceNonZero(total_price, total_quantity) ==
    IF total_quantity # 0 THEN Round2(total_price, total_quantity) ELSE 0

\* when(total_quantity > 0).then((total_price / total_quantity).round(2)).otherwise(0.0)
AvgPrice(total_price, total_quantity) ==
    IF total_quantity > 0 THEN Round2(total_price, total_quantity) ELSE 0

\* The rows of npi_metrics.json; `order` is the order in which group_by
\* returned the groups.
compute_npi_ndc_metrics(claims, order) ==
    LET agg(k) ==
            LET g == SelectSeq(claims, LAMBDA c : c.npi = k[1] /\ c.ndc = k[2])
            IN  [npi |-> k[1], ndc |-> k[2],
                 fills |-> Fills(g),
                 reverted |-> Reverted(g),
                 total_price |-> SumPrice(g),
                 total_quantity |-> SumQuantity(g)]
        row(k) ==
            LET r == agg(k)
            IN  [npi |-> r.npi, ndc |-> r.ndc, fills |-> r.fills,
                 reverted |-> r.reverted,
                 avg_price |-> AvgPrice(r.total_price, r.total_quantity),
                 total_price |-> r.total_price]
        rows == [i \in DOMAIN order |-> row(order[i])]
    IN  SortBy(rows, [p \in Range(rows) \X Range(rows) |-> NpiNdcLt(p[1], p[2])])

\* DataFrame.join(how="left") on npi: a claim with no pharmacy row keeps one
\* row, with chain null.
RECURSIVE LeftJoinChain(_, _)
LeftJoinChain(claims, pharmacies) ==
    IF claims = <<>> THEN <<>>
    ELSE LET c == Head(claims)
             m == SelectSeq(pharmacies, LAMBDA p : p.npi = c.npi /\ p.npi # NULL)
             with(ch) == [ndc |-> c.ndc, chain |-> ch,
                          price |-> c.price, quantity |-> c.quantity]
         IN  (IF m = <<>> THEN <<with(NULL)>>
              ELSE [i \in 1..Len(m) |-> with(m[i].chain)])
             \o LeftJoinChain(Tail(claims), pharmacies)

\* Keys of group_by(["ndc", "chain"]); a null chain is a key like any other.
NdcChainKeys(claims, pharmacies) ==
    LET j == LeftJoinChain(claims, pharmacies)
    IN  {<<j[i].ndc, j[i].chain>> : i \in DOMAIN j}

\* sort(["ndc", "avg_price"]) in place of sort(["ndc", "avg_price", "chain"])
ChainAggLtNoName(a, b) ==
    \/ StrLt(a.ndc, b.ndc)
    \/ a.ndc = b.ndc /\ a.avg_price[1] < b.avg_price[1]

\* sort(["ndc", "avg_price", "chain"]) of rows whose avg_price is not null
ChainAggLt(a, b) ==
    \/ StrLt(a.ndc, b.ndc)
    \/ a.ndc = b.ndc /\ a.avg_price[1] < b.avg_price[1]
    \/ a.ndc = b.ndc /\ a.avg_price[1] = b.avg_price[1] /\ NullsFirstLt(a.chain, b.chain)

\* sort("ndc")
NdcLt(a, b) == StrLt(a.ndc, b.ndc)

\* total_quantity != 0 in place of total_quantity > 0
ChainAvgPriceNonZero(total_price, total_quantity) ==
    IF total_quantity # 0 THEN <<Round2(total_price, total_quantity)>> ELSE <<>>

\* when(total_quantity > 0).then((total_price / total_quantity).round(2)).otherwise(None)
ChainAvgPrice(total_price, total_quantity) ==
    IF total_quantity > 0 THEN <<Round2(total_price, total_quantity)>> ELSE <<>>

\* chain_agg: one row per (ndc, chain) group whose avg_price is not null.
ChainAgg(claims, pharmacies, order) ==
    LET j == LeftJoinChain(claims, pharmacies)
        agg(k) ==
            LET g == SelectSeq(j, LAMBDA c : c.ndc = k[1] /\ c.chain = k[2])
                tp == SumPrice(g)
                tq == SumQuantity(g)
            IN  [ndc |-> k[1], chain |-> k[2],
                 total_price |-> tp, total_quantity |-> tq,
                 avg_price |-> ChainAvgPrice(tp, tq)]
    IN  SelectSeq([i \in DOMAIN order |-> agg(order[i])],
                  LAMBDA r : r.avg_price # <<>>)

\* group_by("ndc", maintain_order=True): the ndc values in order of first
\* appearance.
RECURSIVE FirstSeen(_)
FirstSeen(rows) ==
    IF rows = <<>> THEN <<>>
    ELSE LET init == FirstSeen(SubSeq(rows, 1, Len(rows) - 1))
             n == rows[Len(rows)].ndc
         IN  IF \E i \in DOMAIN init : init[i] = n THEN init ELSE Append(init, n)

\* Expr.head(2)
Head2(s) == SubSeq(s, 1, IF Len(s) < 2 THEN Len(s) ELSE 2)

\* The rows of chain_recommendations.json.
compute_chain_recommendations(claims, pharmacies, order) ==
    LET chain_agg == ChainAgg(claims, pharmacies, order)
        sorted == SortBy(chain_agg,
                      [p \in Range(chain_agg) \X Range(chain_agg) |->
                          ChainAggLt(p[1], p[2])])
        ndcs == FirstSeen(sorted)
        top(n) ==
            LET g == Head2(SelectSeq(sorted, LAMBDA r : r.ndc = n))
            IN  [ndc |-> n,
                 chain |-> [i \in DOMAIN g |->
                               [name |-> g[i].chain, avg_price |-> g[i].avg_price[1]]]]
        rows == [i \in DOMAIN ndcs |-> top(ndcs[i])]
    IN  SortBy(rows, [p \in Range(rows) \X Range(rows) |-> NdcLt(p[1], p[2])])

\* Keys of group_by(["ndc", "quantity"]) and of group_by("ndc").
NdcQuantityKeys(claims) == {<<claims[i].ndc, claims[i].quantity>> : i \in DOMAIN claims}

NdcKeys(claims) == {claims[i].ndc : i \in DOMAIN claims}

IntLt(a, b) == a < b

\* every quantity of the drug in place of those with count == max
ModeQtyAll(count, max_count, quantity) == <<quantity>>

\* when(count == count.max()).then(quantity).otherwise(None): <<>> is null
ModeQty(count, max_count, quantity) ==
    IF count = max_count THEN <<quantity>> ELSE <<>>

\* The rows of quantity_insights.json; order1 is the order of the
\* (ndc, quantity) groups, order2 that of the ndc groups.
compute_quantity_insights(claims, order1, order2) ==
    LET counts == [i \in DOMAIN order1 |->
                      [ndc |-> order1[i][1], quantity |-> order1[i][2],
                       count |-> Len(SelectSeq(claims,
                                    LAMBDA c : c.ndc = order1[i][1]
                                               /\ c.quantity = order1[i][2]))]]
        max(n) == CHOOSE m \in {counts[i].count : i \in DOMAIN counts} :
                      /\ \E i \in DOMAIN counts : counts[i].ndc = n /\ counts[i].count = m
                      /\ \A i \in DOMAIN counts : counts[i].ndc = n => counts[i].count <= m
        modes == [i \in DOMAIN counts |->
                     [ndc |-> counts[i].ndc,
                      mode_qty |-> ModeQty(counts[i].count, max(counts[i].ndc),
                                           counts[i].quantity)]]
        row(n) ==
            LET g == SelectSeq(modes, LAMBDA r : r.ndc = n /\ r.mode_qty # <<>>)
            IN  [ndc |-> n,
                 most_prescribed_quantity |->
                     LET l == [i \in DOMAIN g |-> g[i].mode_qty[1]]
                     IN  SortBy(l, [p \in Range(l) \X Range(l) |-> IntLt(p[1], p[2])])]
        rows == SelectSeq([i \in DOMAIN order2 |-> row(order2[i])],
                          LAMBDA r : Len(r.most_prescribed_quantity) > 0)
    IN  SortBy(rows, [p \in Range(rows) \X Range(rows) |-> NdcLt(p[1], p[2])])

----------------------------------------------------------------------------
(* run_pharmacy_analytics *)

FilterStep ==
    /\ pc = "filter"
    /\ enriched' = filter_to_pharmacy_dataset(df_claims, df_pharmacies)
    /\ pc' = "mark"
    /\ UNCHANGED <<dfs, nfiles, df_pharmacies, df_claims, df_reverts,
                   npi_metrics, chain_recommendations, quantity_insights>>

MarkStep ==
    /\ pc = "mark"
    /\ enriched' = mark_reverted_claims(enriched, df_reverts)
    /\ pc' = "metrics"
    /\ UNCHANGED <<dfs, nfiles, df_pharmacies, df_claims, df_reverts,
                   npi_metrics, chain_recommendations, quantity_insights>>

MetricsStep ==
    /\ pc = "metrics"
    /\ \E order \in Orders(NpiNdcKeys(enriched)) :
           npi_metrics' = compute_npi_ndc_metrics(enriched, order)
    /\ pc' = "chains"
    /\ UNCHANGED <<dfs, nfiles, df_pharmacies, df_claims, df_reverts, enriched,
                   chain_recommendations, quantity_insights>>

ChainsStep ==
    /\ pc = "chains"
    /\ \E order \in Orders(NdcChainKeys(enriched, df_pharmacies)) :
           chain_recommendations' =
               compute_chain_recommendations(enriched, df_pharmacies, order)
    /\ pc' = "quantity"
    /\ UNCHANGED <<dfs, nfiles, df_pharmacies, df_claims, df_reverts, enriched,
                   npi_metrics, quantity_insights>>

QuantityStep ==
    /\ pc = "quantity"
    /\ \E order1 \in Orders(NdcQuantityKeys(enriched)),
          order2 \in Orders(NdcKeys(enriched)) :
           quantity_insights' = compute_quantity_insights(enriched, order1, order2)
    /\ pc' = "done"
    /\ UNCHANGED <<dfs, nfiles, df_pharmacies, df_claims, df_reverts, enriched,
                   npi_metrics, chain_recommendations>>

----------------------------------------------------------------------------
(* Text values *)

Npi1 == <<49>>          \* "1"
Npi10 == <<49, 48>>     \* "10"
Npi2 == <<50>>          \* "2"
Npi3 == <<51>>          \* "3"
Npi9 == <<57>>          \* "9"
NdcD1 == <<100, 49>>      \* "d1"
NdcD10 == <<100, 49, 48>> \* "d10"
NdcD2 == <<100, 50>>      \* "d2"
ChainA == <<65>>        \* "A"
ChainB == <<66>>        \* "B"
ChainC == <<67>>        \* "C"
ClaimId(i) == <<99, 48 + i>>   \* "c1", "c2", ...
RevertId(i) == <<114, 48 + i>> \* "r1", "r2", ...

SeqsUpTo(S, n) == UNION {[1..k -> S] : k \in 0..n}

----------------------------------------------------------------------------
(* main: the three loads, then run_pharmacy_analytics *)

MaxFiles == 2
MaxRows == 2

PharmacyCsvRows == [npi : {Npi1}, chain : {ChainA, ChainB}]

ClaimJsonRows ==
    [id : {ClaimId(1), ClaimId(2)}, npi : {Npi1, Npi9}, ndc : {NdcD1},
     price : {250}, quantity : {2}]

RevertJsonRows == [id : {RevertId(1)}, claim_id : {ClaimId(1), ClaimId(2)}]

\* load_pharmacies: one .csv file with both columns is read and deduplicated.
LoadPharmacyFile ==
    /\ pc = "load_pharmacies"
    /\ nfiles < MaxFiles
    /\ \E file \in SeqsUpTo(PharmacyCsvRows, MaxRows) :
           \E df \in UniqueOutcomes(file, NpiOf(file)) : dfs' = Append(dfs, df)
    /\ nfiles' = nfiles + 1
    /\ UNCHANGED <<pc, df_pharmacies, df_claims, df_reverts, enriched,
                   npi_metrics, chain_recommendations, quantity_insights>>

\* load_pharmacies / load_events: a file that is no .csv, lacks a column or
\* fails to parse is passed over.
SkipFile ==
    /\ pc \in {"load_pharmacies", "load_claims", "load_reverts"}
    /\ nfiles < MaxFiles
    /\ nfiles' = nfiles + 1
    /\ UNCHANGED <<pc, dfs, df_pharmacies, df_claims, df_reverts, enriched,
                   npi_metrics, chain_recommendations, quantity_insights>>

\* load_pharmacies after its loops: ValueError when nothing was read.
EndLoadPharmacies ==
    /\ pc = "load_pharmacies"
    /\ IF dfs = <<>>
       THEN pc' = "error" /\ UNCHANGED df_pharmacies
       ELSE pc' = "load_claims" /\ df_pharmacies' = Concat(dfs)
    /\ dfs' = <<>>
    /\ nfiles' = 0
    /\ UNCHANGED <<df_claims, df_reverts, enriched,
                   npi_metrics, chain_recommendations, quantity_insights>>

\* load_events: one .json file is read and deduplicated.
LoadEventsFile ==
    /\ pc \in {"load_claims", "load_reverts"}
    /\ nfiles < MaxFiles
    /\ \E file \in SeqsUpTo(IF pc = "load_claims" THEN ClaimJsonRows
                            ELSE RevertJsonRows, MaxRows) :
           \E df \in UniqueOutcomes(file, IdOf(file)) : dfs' = Append(dfs, df)
    /\ nfiles' = nfiles + 1
    /\ UNCHANGED <<pc, df_pharmacies, df_claims, df_reverts, enriched,
                   npi_metrics, chain_recommendations, quantity_insights>>

\* load_events after its loops: an empty frame when nothing was read.
EndLoadEvents ==
    /\ pc \in {"load_claims", "load_reverts"}
    /\ IF pc = "load_claims"
       THEN pc' = "load_reverts" /\ df_claims' = Concat(dfs) /\ UNCHANGED df_reverts
       ELSE pc' = "filter" /\ df_reverts' = Concat(dfs) /\ UNCHANGED df_claims
    /\ dfs' = <<>>
    /\ nfiles' = 0
    /\ UNCHANGED <<df_pharmacies, enriched,
                   npi_metrics, chain_recommendations, quantity_insights>>

Init ==
    /\ pc = "load_pharmacies"
    /\ dfs = <<>>
    /\ nfiles = 0
    /\ df_pharmacies = <<>>
    /\ df_claims = <<>>
    /\ df_reverts = <<>>
    /\ enriched = <<>>
    /\ npi_metrics = <<>>
    /\ chain_recommendations = <<>>
    /\ quantity_insights = <<>>

NextCore ==
    \/ FilterStep
    \/ MarkStep
    \/ MetricsStep
    \/ ChainsStep
    \/ QuantityStep

Next ==
    \/ LoadPharmacyFile
    \/ SkipFile
    \/ EndLoadPharmacies
    \/ LoadEventsFile
    \/ EndLoadEvents
    \/ NextCore

Spec == Init /\ [][Next]_vars

----------------------------------------------------------------------------
(* run_pharmacy_analytics on in-memory collections *)

\* The state in which main calls run_pharmacy_analytics.
InitCore(pharmacies, claims, reverts) ==
    /\ pc = "filter"
    /\ dfs = <<>>
    /\ nfiles = 0
    /\ df_pharmacies \in pharmacies
    /\ df_claims \in claims
    /\ df_reverts \in reverts
    /\ enriched = <<>>
    /\ npi_metrics = <<>>
    /\ chain_recommendations = <<>>
    /\ quantity_insights = <<>>

\* Records with the ids c1, c2, ... (r1, r2, ...) in this order: collections
\* deduplicated by id.
WithClaimIds(rows) ==
    {[i \in DOMAIN r |-> [id |-> ClaimId(i), npi |-> r[i].npi, ndc |-> r[i].ndc,
                          price |-> r[i].price, quantity |-> r[i].quantity]] : r \in rows}

RevertsOf(claim_ids, n) ==
    {[i \in DOMAIN f |-> [id |-> RevertId(i), claim_id |-> f[i]]] :
        f \in SeqsUpTo(claim_ids, n)}

(* Join and enrichment *)
MaxJoinPharmacies == 2
MaxJoinClaims == 2
MaxJoinReverts == 2

JoinPharmacies == SeqsUpTo([npi : {Npi1, Npi2}, chain : {ChainA}], MaxJoinPharmacies)

JoinClaims ==
    SeqsUpTo([id : {ClaimId(1), ClaimId(2)}, npi : {Npi1, Npi2, Npi9}, ndc : {NdcD1},
              price : {250}, quantity : {2}], MaxJoinClaims)

JoinReverts == RevertsOf({ClaimId(1), ClaimId(2)}, MaxJoinReverts)

InitJoin == InitCore(JoinPharmacies, JoinClaims, JoinReverts)

SpecJoin == InitJoin /\ [][NextCore]_vars

(* Metrics *)
MaxMetricsClaims == 2

MetricsPharmacies ==
    {<<[npi |-> Npi10, chain |-> ChainA], [npi |-> Npi9, chain |-> ChainB]>>}

\* (price, quantity) of a claim, in cents and units: a free fill, a cent for
\* three units and for two, and 2.50 for no unit, a returned unit, three units.
MetricsAmounts ==
    {[price |-> 0, quantity |-> 2], [price |-> 1, quantity |-> 3],
     [price |-> 1, quantity |-> 2], [price |-> 250, quantity |-> 0],
     [price |-> 250, quantity |-> 0 - 1], [price |-> 250, quantity |-> 3]}

MetricsClaimRows ==
    {[npi |-> n, ndc |-> d, price |-> a.price, quantity |-> a.quantity] :
        n \in {Npi10, Npi9}, d \in {NdcD10, NdcD2}, a \in MetricsAmounts}

MetricsClaims == WithClaimIds(SeqsUpTo(MetricsClaimRows, MaxMetricsClaims))

\* No revert, or one revert of the first claim.
MetricsReverts == {<<>>, <<[id |-> RevertId(1), claim_id |-> ClaimId(1)]>>}

InitMetrics == InitCore(MetricsPharmacies, MetricsClaims, MetricsReverts)

SpecMetrics == InitMetrics /\ [][NextCore]_vars

(* Chain recommendations *)
MaxChainClaims == 3

\* Two directories: three chains; and two pharmacies of one chain beside one
\* whose chain cell is empty in the CSV file.
ChainPharmacies ==
    {<<[npi |-> Npi1, chain |-> ChainA], [npi |-> Npi2, chain |-> ChainB],
       [npi |-> Npi3, chain |-> ChainC]>>,
     <<[npi |-> Npi1, chain |-> ChainA], [npi |-> Npi2, chain |-> ChainA],
       [npi |-> Npi3, chain |-> NULL]>>}

\* Drug d1 is filled by the three pharmacies for 1.00 or 2.00 a unit, and by
\* pharmacy 1 with no unit; drug d2 is filled by pharmacy 1 alone, for 1.00,
\* with one unit, no unit or a returned unit (a negative quantity).
ChainClaimRows ==
    {[npi |-> n, ndc |-> NdcD1, price |-> p, quantity |-> 1] :
        n \in {Npi1, Npi2, Npi3}, p \in {100, 200}}
    \cup
    {[npi |-> Npi1, ndc |-> NdcD1, price |-> 100, quantity |-> 0]}
    \cup
    {[npi |-> Npi1, ndc |-> NdcD2, price |-> 100, quantity |-> q] :
        q \in {0 - 1, 0, 1}}

ChainClaims == WithClaimIds(SeqsUpTo(ChainClaimRows, MaxChainClaims))

InitChains == InitCore(ChainPharmacies, ChainClaims, {<<>>})

SpecChains == InitChains /\ [][NextCore]_vars

(* Report order *)
MaxOrderClaims == 3

OrderPharmacies ==
    {<<[npi |-> Npi9, chain |-> ChainB], [npi |-> Npi10, chain |-> ChainA]>>}

OrderClaims ==
    WithClaimIds(SeqsUpTo([npi : {Npi10, Npi9}, ndc : {NdcD10, NdcD2},
                           price : {250}, quantity : {2}],
                          MaxOrderClaims))

InitOrder == InitCore(OrderPharmacies, OrderClaims, {<<>>})

SpecOrder == InitOrder /\ [][NextCore]_vars

(* Quantity insights *)
MaxQuantityClaims == 3

QuantityPharmacies == {<<[npi |-> Npi1, chain |-> ChainA]>>}

QuantityClaims ==
    WithClaimIds(SeqsUpTo([npi : {Npi1}, ndc : {NdcD1, NdcD2},
                           price : {250}, quantity : {1, 2, 3}],
                          MaxQuantityClaims))

InitQuantity == InitCore(QuantityPharmacies, QuantityClaims, {<<>>})

SpecQuantity == InitQuantity /\ [][NextCore]_vars

----------------------------------------------------------------------------
(* Join and enrichment: properties *)

\* C2: join exclusivity. In the frame filter_to_pharmacy_dataset returns, a
\* claim of the input occurs if and only if some pharmacy record has its npi,
\* and every row is a claim of the input.
C2_JoinExclusivity ==
    pc = "mark" =>
        /\ \A c \in Range(df_claims) :
               (c \in Range(enriched)) <=> (\E p \in Range(df_pharmacies) : p.npi = c.npi)
        /\ \A e \in Range(enriched) : e \in Range(df_claims)

\* A claim with an unknown npi was dropped and a claim with a known npi kept.
C2_Witness ==
    /\ pc = "mark"
    /\ \E c \in Range(df_claims) : c \notin Range(enriched)
    /\ enriched # <<>>

\* C3: revert correctness. mark_reverted_claims returns one row per row of its
\* input, with the input's fields, and is_reverted is true exactly for the
\* claims whose id is the claim_id of at least one revert record.
C3_RevertCorrectness ==
    [][MarkStep =>
          /\ Len(enriched') = Len(enriched)
          /\ \A i \in DOMAIN enriched :
                 /\ enriched'[i].id = enriched[i].id
                 /\ enriched'[i].npi = enriched[i].npi
                 /\ enriched'[i].ndc = enriched[i].ndc
                 /\ enriched'[i].price = enriched[i].price
                 /\ enriched'[i].quantity = enriched[i].quantity
                 /\ enriched'[i].is_reverted <=>
                        (\E j \in DOMAIN df_reverts : df_reverts[j].claim_id = enriched[i].id)
    ]_vars

\* One claim is reverted by two revert records and another claim by none.
C3_Witness ==
    /\ pc = "metrics"
    /\ \E i \in DOMAIN enriched :
           /\ enriched[i].is_reverted
           /\ Cardinality({j \in DOMAIN df_reverts :
                              df_reverts[j].claim_id = enriched[i].id}) = 2
    /\ \E i \in DOMAIN enriched : ~enriched[i].is_reverted

----------------------------------------------------------------------------
(* Metrics: properties *)

AfterMetrics == pc \in {"chains", "quantity", "done"}

\* The enriched claims of the group (npi, ndc), by index.
GroupOf(npi, ndc) ==
    {i \in DOMAIN enriched : enriched[i].npi = npi /\ enriched[i].ndc = ndc}

GroupRows(npi, ndc) ==
    SelectSeq(enriched, LAMBDA c : c.npi = npi /\ c.ndc = ndc)

RECURSIVE SumFills(_)
SumFills(rows) ==
    IF rows = <<>> THEN 0 ELSE Head(rows).fills + SumFills(Tail(rows))

\* C4: metrics conservation. The metrics report has one row for each
\* (npi, ndc) pair of the enriched claims and no other; fills is the number
\* of claims of the pair, reverted the number of them with is_reverted, so
\* reverted <= fills, and the fills add up to the number of enriched claims.
C4_MetricsConservation ==
    AfterMetrics =>
        /\ \A i \in DOMAIN enriched : \E j \in DOMAIN npi_metrics :
               npi_metrics[j].npi = enriched[i].npi /\ npi_metrics[j].ndc = enriched[i].ndc
        /\ \A j, k \in DOMAIN npi_metrics :
               (npi_metrics[j].npi = npi_metrics[k].npi
                    /\ npi_metrics[j].ndc = npi_metrics[k].ndc) => j = k
        /\ \A j \in DOMAIN npi_metrics :
               LET r == npi_metrics[j]
                   g == GroupOf(r.npi, r.ndc)
               IN  /\ g # {}
                   /\ r.fills = Cardinality(g)
                   /\ r.reverted = Cardinality({i \in g : enriched[i].is_reverted})
                   /\ r.reverted <= r.fills
        /\ SumFills(npi_metrics) = Len(enriched)

\* A group of two claims of which one is reverted.
C4_Witness ==
    /\ AfterMetrics
    /\ \E j \in DOMAIN npi_metrics :
           npi_metrics[j].fills = 2 /\ npi_metrics[j].reverted = 1

\* a (in cents) is p / q rounded to the nearest cent, q # 0.
IsRounded(a, p, q) ==
    LET n == IF q > 0 THEN p ELSE 0 - p
        d == IF q > 0 THEN q ELSE 0 - q
        m == IF n >= 0 THEN a ELSE 0 - a
        u == IF n >= 0 THEN n ELSE 0 - n
    IN  2 * m * d <= 2 * u + d /\ 2 * u + d < 2 * (m + 1) * d

\* C5 as stated: avg_price is 0.0 if and only if total_quantity is 0, and
\* otherwise it is the rounded quotient.
C5_ZeroIffNoQuantity ==
    AfterMetrics =>
        \A j \in DOMAIN npi_metrics :
            LET r == npi_metrics[j]
                tp == SumPrice(GroupRows(r.npi, r.ndc))
                tq == SumQuantity(GroupRows(r.npi, r.ndc))
            IN  /\ (r.avg_price = 0) <=> (tq = 0)
                /\ tq # 0 => IsRounded(r.avg_price, tp, tq)

\* C5, amended: avg_price is 0.0 whenever total_quantity is not positive, in
\* particular when it is 0, and is the rounded quotient of the unrounded sums
\* when total_quantity is positive.
C5_ZeroDivisionPolicy ==
    AfterMetrics =>
        \A j \in DOMAIN npi_metrics :
            LET r == npi_metrics[j]
                tp == SumPrice(GroupRows(r.npi, r.ndc))
                tq == SumQuantity(GroupRows(r.npi, r.ndc))
            IN  /\ tq <= 0 => r.avg_price = 0
                /\ tq > 0 => IsRounded(r.avg_price, tp, tq)

\* One group without quantity, one with a negative quantity or none, and
\* one with a positive quantity and an average that is not 0.
C5_Witness ==
    /\ AfterMetrics
    /\ \E j \in DOMAIN npi_metrics :
           SumQuantity(GroupRows(npi_metrics[j].npi, npi_metrics[j].ndc)) = 0
    /\ \E j \in DOMAIN npi_metrics :
           /\ SumQuantity(GroupRows(npi_metrics[j].npi, npi_metrics[j].ndc)) > 0
           /\ npi_metrics[j].avg_price > 0

\* The rows of s at the indices o[1], o[2], ...: the rows in another order.
Reordered(s, o) == [i \in DOMAIN o |-> s[o[i]]]

\* The rows are strictly ascending by ndc.
AscendingByNdc(s) ==
    \A i \in DOMAIN s : i + 1 \in DOMAIN s => StrLt(s[i].ndc, s[i + 1].ndc)

\* C10: output order and key uniqueness. The metrics report is strictly
\* ascending by the pair of strings (npi, ndc), the chain and the quantity
\* reports are strictly ascending by ndc, and the claims presented in any
\* other order, with the groups returned in any order, give the same reports.
C10_OutputOrder ==
    pc = "done" =>
        /\ \A i \in DOMAIN npi_metrics : i + 1 \in DOMAIN npi_metrics =>
               \/ StrLt(npi_metrics[i].npi, npi_metrics[i + 1].npi)
               \/ /\ npi_metrics[i].npi = npi_metrics[i + 1].npi
                  /\ StrLt(npi_metrics[i].ndc, npi_metrics[i + 1].ndc)
        /\ AscendingByNdc(chain_recommendations)
        /\ AscendingByNdc(quantity_insights)
        /\ \A o \in Orders(DOMAIN df_claims) :
               LET e == mark_reverted_claims(
                            filter_to_pharmacy_dataset(Reordered(df_claims, o),
                                                       df_pharmacies),
                            df_reverts)
               IN  /\ \A g \in Orders(NpiNdcKeys(e)) :
                          compute_npi_ndc_metrics(e, g) = npi_metrics
                   /\ \A g \in Orders(NdcChainKeys(e, df_pharmacies)) :
                          compute_chain_recommendations(e, df_pharmacies, g)
                              = chain_recommendations
                   /\ \A g1 \in Orders(NdcQuantityKeys(e)), g2 \in Orders(NdcKeys(e)) :
                          compute_quantity_insights(e, g1, g2) = quantity_insights

\* Two rows of one pharmacy in the metrics report, its npi "10" before the
\* npi "9" of a third row, and two rows in each of the other reports.
C10_Witness ==
    /\ pc = "done"
    /\ Len(npi_metrics) = 3
    /\ npi_metrics[1].npi = Npi10 /\ npi_metrics[2].npi = Npi10
    /\ npi_metrics[3].npi = Npi9
    /\ Len(chain_recommendations) = 2
    /\ Len(quantity_insights) = 2

----------------------------------------------------------------------------
(* Chain recommendations: properties *)

AfterChains == pc \in {"quantity", "done"}

\* Of the joined claims j, those of drug n and chain ch (NULL: no chain).
ChainGroupRows(j, n, ch) == SelectSeq(j, LAMBDA c : c.ndc = n /\ c.chain = ch)

ChainGroupQuantity(j, n, ch) == SumQuantity(ChainGroupRows(j, n, ch))

\* The (ndc, chain) pairs of the joined claims j.
ChainGroups(j) == {<<j[i].ndc, j[i].chain>> : i \in DOMAIN j}

\* The (ndc, chain) groups that chain_agg keeps.
KeptGroups ==
    LET agg == ChainAgg(enriched, df_pharmacies,
                   CHOOSE o \in Orders(NdcChainKeys(enriched, df_pharmacies)) : TRUE)
    IN  {<<agg[i].ndc, agg[i].chain>> : i \in DOMAIN agg}

\* The eligible chains of drug n, each with its average unit price.
Candidates(n) ==
    LET j == LeftJoinChain(enriched, df_pharmacies)
    IN  {[name |-> k[2],
          avg_price |-> Round2(SumPrice(ChainGroupRows(j, n, k[2])),
                               ChainGroupQuantity(j, n, k[2]))] :
            k \in {k \in ChainGroups(j) :
                      k[1] = n /\ ChainGroupQuantity(j, n, k[2]) > 0}}

\* (avg_price ascending, chain name ascending); a null name, which sort puts
\* first, precedes every name.
Precedes(a, b) ==
    \/ a.avg_price < b.avg_price
    \/ a.avg_price = b.avg_price /\ NullsFirstLt(a.name, b.name)

\* C6: top 2 with tie-break. The chain list of a drug has at most 2 entries
\* and is the first min(2, n) of the drug's n eligible chains in the order
\* (avg_price ascending, chain name ascending).
C6_TopTwo ==
    AfterChains =>
        \A j \in DOMAIN chain_recommendations :
            LET l == chain_recommendations[j].chain
                e == Candidates(chain_recommendations[j].ndc)
            IN  /\ Len(l) <= 2
                /\ Len(l) = IF Cardinality(e) < 2 THEN Cardinality(e) ELSE 2
                /\ \A i \in DOMAIN l : l[i] \in e
                /\ \A i, k \in DOMAIN l : i < k => Precedes(l[i], l[k])
                /\ \A x \in e : (\A i \in DOMAIN l : l[i] # x) =>
                       \A i \in DOMAIN l : Precedes(l[i], x)

\* A drug with three eligible chains, the two listed ones at the same price.
C6_Witness ==
    /\ AfterChains
    /\ \E j \in DOMAIN chain_recommendations :
           LET l == chain_recommendations[j].chain
           IN  /\ Cardinality(Candidates(chain_recommendations[j].ndc)) = 3
               /\ Len(l) = 2
               /\ l[1].avg_price = l[2].avg_price

\* C7: null-chain exclusion. No entry of the chain report has a null name.
C7_NoNullChain ==
    AfterChains =>
        \A j \in DOMAIN chain_recommendations :
            \A i \in DOMAIN chain_recommendations[j].chain :
                chain_recommendations[j].chain[i].name # NULL

\* C9 as stated: a group is dropped if and only if its total_quantity is 0;
\* a drug has a row if and only if one of its groups is kept; no row has an
\* empty chain list.
C9_DroppedIffZero ==
    AfterChains =>
        LET jn == LeftJoinChain(enriched, df_pharmacies)
            kept == KeptGroups
        IN  /\ \A k \in ChainGroups(jn) :
                   (k \notin kept) <=> (ChainGroupQuantity(jn, k[1], k[2]) = 0)
            /\ \A n \in NdcKeys(enriched) :
                   (\E j \in DOMAIN chain_recommendations :
                        chain_recommendations[j].ndc = n)
                       <=> (\E k \in kept : k[1] = n)
            /\ \A j \in DOMAIN chain_recommendations :
                   chain_recommendations[j].chain # <<>>

\* C9, amended: a group is dropped if and only if its total_quantity is not
\* positive; a drug has a row if and only if one of its groups has a positive
\* total_quantity; no row has an empty chain list.
C9_Eligibility ==
    AfterChains =>
        LET jn == LeftJoinChain(enriched, df_pharmacies)
            kept == KeptGroups
        IN  /\ \A k \in ChainGroups(jn) :
                   (k \notin kept) <=> (ChainGroupQuantity(jn, k[1], k[2]) <= 0)
            /\ \A n \in NdcKeys(enriched) :
                   (\E j \in DOMAIN chain_recommendations :
                        chain_recommendations[j].ndc = n)
                       <=> (\E k \in ChainGroups(jn) :
                               k[1] = n /\ ChainGroupQuantity(jn, n, k[2]) > 0)
            /\ \A j \in DOMAIN chain_recommendations :
                   /\ chain_recommendations[j].chain # <<>>
                   /\ chain_recommendations[j].ndc \in NdcKeys(enriched)

\* A group with total_quantity 0 and one with a negative total_quantity are
\* dropped, the drug of one of them has no row, and another drug has a row.
C9_Witness ==
    /\ AfterChains
    /\ LET jn == LeftJoinChain(enriched, df_pharmacies)
       IN  /\ \E k \in ChainGroups(jn) : ChainGroupQuantity(jn, k[1], k[2]) = 0
           /\ \E k \in ChainGroups(jn) : ChainGroupQuantity(jn, k[1], k[2]) < 0
    /\ \E n \in NdcKeys(enriched) :
           \A j \in DOMAIN chain_recommendations : chain_recommendations[j].ndc # n
    /\ chain_recommendations # <<>>

----------------------------------------------------------------------------
(* Quantity insights: properties *)

\* The number of enriched claims of drug n with quantity q.
CountOf(n, q) ==
    Cardinality({i \in DOMAIN enriched : enriched[i].ndc = n /\ enriched[i].quantity = q})

QuantitiesOf(n) == {enriched[i].quantity : i \in {i \in DOMAIN enriched : enriched[i].ndc = n}}

\* C8: mode completeness. Every drug with a claim has exactly one row; its
\* list is not empty, ascending without repeats, and holds exactly the
\* quantities of the drug whose count is the largest count of the drug.
C8_ModeCompleteness ==
    pc = "done" =>
        /\ \A n \in NdcKeys(enriched) :
               Cardinality({j \in DOMAIN quantity_insights :
                               quantity_insights[j].ndc = n}) = 1
        /\ \A j \in DOMAIN quantity_insights :
               LET n == quantity_insights[j].ndc
                   l == quantity_insights[j].most_prescribed_quantity
               IN  /\ n \in NdcKeys(enriched)
                   /\ l # <<>>
                   /\ \A i \in DOMAIN l : i + 1 \in DOMAIN l => l[i] < l[i + 1]
                   /\ Range(l) \subseteq QuantitiesOf(n)
                   /\ \A q \in QuantitiesOf(n) :
                          (q \in Range(l)) <=>
                              (\A q2 \in QuantitiesOf(n) : CountOf(n, q2) <= CountOf(n, q))

\* A drug with two tied modes, claimed in descending order of quantity, and
\* a second drug.
C8_Witness ==
    /\ pc = "done"
    /\ Len(quantity_insights) = 2
    /\ \E j \in DOMAIN quantity_insights :
           /\ Len(quantity_insights[j].most_prescribed_quantity) = 2
           /\ \E i, k \in DOMAIN enriched :
                  /\ i < k
                  /\ enriched[i].ndc = quantity_insights[j].ndc
                  /\ enriched[k].ndc = quantity_insights[j].ndc
                  /\ enriched[i].quantity > enriched[k].quantity

----------------------------------------------------------------------------
(* Ingestion: properties *)

\* The rows whose key occurs in no earlier row: each key once.
OncePerKey(rows, key) ==
    LET kept[i \in 0..Len(rows)] ==
            IF i = 0 THEN <<>>
            ELSE IF \E j \in 1..(i - 1) : key[j] = key[i]
                 THEN kept[i - 1]
                 ELSE Append(kept[i - 1], rows[i])
    IN  kept[Len(rows)]

\* Rows with the same key are the same record.
OnlyCopies(rows, key) ==
    \A i, j \in DOMAIN rows : key[i] = key[j] => rows[i] = rows[j]

\* C1: duplicates do not double-count. When a record occurs in more than one
\* file, the three reports are those obtained with each key occurring once.
C1_NoDoubleCount ==
    (/\ pc = "done"
     /\ OnlyCopies(df_claims, IdOf(df_claims))
     /\ OnlyCopies(df_pharmacies, NpiOf(df_pharmacies))) =>
        LET p == OncePerKey(df_pharmacies, NpiOf(df_pharmacies))
            e == mark_reverted_claims(
                     filter_to_pharmacy_dataset(OncePerKey(df_claims, IdOf(df_claims)), p),
                     df_reverts)
        IN  /\ npi_metrics =
                   compute_npi_ndc_metrics(e, CHOOSE o \in Orders(NpiNdcKeys(e)) : TRUE)
            /\ chain_recommendations =
                   compute_chain_recommendations(e, p,
                       CHOOSE o \in Orders(NdcChainKeys(e, p)) : TRUE)
            /\ quantity_insights =
                   compute_quantity_insights(e,
                       CHOOSE o \in Orders(NdcQuantityKeys(e)) : TRUE,
                       CHOOSE o \in Orders(NdcKeys(e)) : TRUE)

====
